---- MODULE Spec2Model ----
(***************************************************************************)
(* CrashInsight: the traffic-accident analytics engine.                    *)
(*                                                                         *)
(* Two deployments share one analyzer design:                              *)
(*   - the standalone Flask server, src/backend/app.py, which builds the   *)
(*     analyzer once at import time and serves eight routes;               *)
(*   - the serverless handler, src/netlify/functions/api.py, which builds  *)
(*     a simplified analyzer lazily in get_analyzer() on first use.        *)
(*                                                                         *)
(* A data frame is a record [columns, rows]; a row is a function from      *)
(* column names to cells.  A cell is what pandas holds in one position:    *)
(* a number, the missing marker NaN, or a Python string.                   *)
(***************************************************************************)
EXTENDS Integers, Sequences, FiniteSets, TLC

(***************************************************************************)
(* Bounds of the model.                                                    *)
(***************************************************************************)
\* the largest number of records in a dataset file
MaxRows == 2
\* the number of requests a run of a deployment serves
MaxRequests == 2
\* the number of concurrent invocations of the serverless handler
MaxThreads == 2

(***************************************************************************)
(* State.                                                                  *)
(***************************************************************************)
VARIABLES
  deployment,  \* "standalone" (backend/app.py) or "serverless" (netlify api.py)
  file,        \* the dataset file on disk
  phase,       \* standalone: "import", "initialized", "serving"
  analyzer,    \* the module-level analyzer: None or the analyzer object
  loads,       \* how many analyzer objects have been constructed
  pc,          \* serverless: where each handler invocation stands
  event,       \* serverless: the request of each invocation
  instance,    \* serverless: analyzer_instance of each invocation
  served,      \* the number of requests accepted so far
  response,    \* the response sent last
  memo         \* one of the responses sent before that one

vars ==
  << deployment, file, phase, analyzer, loads, pc, event, instance, served,
     response, memo >>

(***************************************************************************)
(* Cells.                                                                  *)
(***************************************************************************)
\* a numeric cell (int64 / float64 value)
Num(n) == [kind |-> "num", num |-> n, str |-> ""]
\* a Python string that is not the text of a number
Str(s) == [kind |-> "str", num |-> 0, str |-> s]
\* a Python string that is the text of the number n (a numeric literal read
\* into a column that pandas typed as object)
NumText(n) == [kind |-> "str", num |-> n, str |-> "<numeral>"]
\* the missing marker (an empty CSV cell, or a failed coercion)
NaN == [kind |-> "nan", num |-> 0, str |-> ""]

IsNum(c) == c.kind = "num"
IsNaN(c) == c.kind = "nan"
IsStr(c) == c.kind = "str"

\* pd.isna(value) on one cell
PdIsNa(c) == IsNaN(c)

(***************************************************************************)
(* Sequence helpers.                                                       *)
(***************************************************************************)
Range(s) == {s[i] : i \in DOMAIN s}

\* the elements of sequence s that satisfy Test, in order (SelectSeq with a
\* test that may mention the position)
RECURSIVE SumSeq(_)
SumSeq(s) == IF s = <<>> THEN 0 ELSE Head(s) + SumSeq(Tail(s))

\* number of positions of s whose element is in set S
CountIn(s, S) == Cardinality({i \in DOMAIN s : s[i] \in S})

\* all sequences over S of length 1..n
SeqsUpTo(S, n) == UNION {[1..k -> S] : k \in 1..n}

(***************************************************************************)
(* Schema (load_and_process_data, column_names / numeric_cols /            *)
(* categorical_cols).                                                      *)
(***************************************************************************)
column_names ==
  << "crash_time", "traffic_control_device", "weather_condition",
     "lighting_condition", "first_crash_type", "trafficway_type",
     "alignment", "roadway_surface_cond", "road_defect", "crash_type",
     "intersection_related_i", "damage", "prim_contributory_cause",
     "num_units", "most_severe_injury", "injuries_total", "injuries_fatal",
     "injuries_incapacitating", "injuries_non_incapacitating",
     "injuries_reported_not_evident", "injuries_no_indication",
     "crash_hour", "crash_day_of_week", "crash_month" >>

numeric_cols ==
  << "injuries_total", "injuries_fatal", "injuries_incapacitating",
     "injuries_non_incapacitating", "injuries_reported_not_evident",
     "injuries_no_indication", "crash_hour", "crash_day_of_week",
     "crash_month" >>

categorical_cols ==
  << "traffic_control_device", "weather_condition", "lighting_condition",
     "first_crash_type", "trafficway_type", "alignment",
     "roadway_surface_cond", "road_defect", "prim_contributory_cause",
     "most_severe_injury" >>

\* the encoded column attached for a nominal field: f'{col}_encoded'
EncodedName(col) ==
  CASE col = "traffic_control_device" -> "traffic_control_device_encoded"
    [] col = "weather_condition" -> "weather_condition_encoded"
    [] col = "lighting_condition" -> "lighting_condition_encoded"
    [] col = "first_crash_type" -> "first_crash_type_encoded"
    [] col = "trafficway_type" -> "trafficway_type_encoded"
    [] col = "alignment" -> "alignment_encoded"
    [] col = "roadway_surface_cond" -> "roadway_surface_cond_encoded"
    [] col = "road_defect" -> "road_defect_encoded"
    [] col = "prim_contributory_cause" -> "prim_contributory_cause_encoded"
    [] col = "most_severe_injury" -> "most_severe_injury_encoded"

(***************************************************************************)
(* String order.  Python sorts strings by code point; Lexicon lists every  *)
(* string value of the model in that order.                                *)
(***************************************************************************)
Lexicon ==
  << "ANGLE", "CLEAR", "CLOUDY", "DARKNESS", "DAWN", "DAYLIGHT", "DRY",
     "DUSK", "FATAL", "Fatal", "HEAD ON", "LIGHTED", "Minor Injury",
     "NO CONTROLS", "NO INDICATION OF INJURY", "No Injury", "RAIN",
     "REAR END", "SIDESWIPE", "SNOW", "SNOW OR SLUSH", "Serious Injury",
     "TRAFFIC SIGNAL", "Unknown", "WET" >>

StrRank(s) == CHOOSE i \in DOMAIN Lexicon : Lexicon[i] = s

\* sorted(set of strings) as a sequence
SortedStrings(S) == SelectSeq(Lexicon, LAMBDA x : x \in S)

\* the position (0-based) of value v in sequence s
IndexOf(s, v) == (CHOOSE i \in DOMAIN s : s[i] = v) - 1

(***************************************************************************)
(* Data frames.                                                            *)
(***************************************************************************)
DataFrame(cols, rows) == [columns |-> cols, rows |-> rows]

\* len(df)
Len_df(df) == Len(df.rows)

\* the cells of one column, in row order
Column(df, c) == [i \in DOMAIN df.rows |-> df.rows[i][c]]

\* df.dropna(): rows holding a missing marker in any column are removed
DropNa(rows) == SelectSeq(rows, LAMBDA r : \A c \in DOMAIN r : ~IsNaN(r[c]))

(***************************************************************************)
(* The dataset file.  A file that exists and parses is a sequence of       *)
(* records of 24 text cells: a numeral, other text, or nothing.            *)
(***************************************************************************)
\* a record whose every field is well formed
DefaultRow ==
  [c \in Range(column_names) |->
     CASE c = "crash_time" -> Str("<timestamp>")
       [] c = "traffic_control_device" -> Str("NO CONTROLS")
       [] c = "weather_condition" -> Str("CLEAR")
       [] c = "lighting_condition" -> Str("DAYLIGHT")
       [] c = "first_crash_type" -> Str("REAR END")
       [] c = "trafficway_type" -> Str("Unknown")
       [] c = "alignment" -> Str("Unknown")
       [] c = "roadway_surface_cond" -> Str("DRY")
       [] c = "road_defect" -> Str("Unknown")
       [] c = "crash_type" -> Str("Unknown")
       [] c = "intersection_related_i" -> Str("Unknown")
       [] c = "damage" -> Str("Unknown")
       [] c = "prim_contributory_cause" -> Str("Unknown")
       [] c = "num_units" -> Num(2)
       [] c = "most_severe_injury" -> Str("NO INDICATION OF INJURY")
       [] c = "crash_hour" -> Num(13)
       [] c = "crash_day_of_week" -> Num(1)
       [] c = "crash_month" -> Num(6)
       [] OTHER -> Num(0)]

\* pd.read_csv types a column as numeric when every non-empty cell of it is
\* a numeral; otherwise the column is object and its numerals stay text
ColumnIsNumeric(rows, c) == \A i \in DOMAIN rows : ~IsStr(rows[i][c])

read_csv(rows) ==
  [i \in DOMAIN rows |->
     [c \in Range(column_names) |->
        IF IsNum(rows[i][c]) /\ ~ColumnIsNumeric(rows, c)
          THEN NumText(rows[i][c].num)
          ELSE rows[i][c]]]

\* pd.to_numeric(value, errors='coerce') on one cell
to_numeric(c) ==
  IF IsNum(c) THEN c
  ELSE IF IsStr(c) /\ c.str = "<numeral>" THEN Num(c.num)
  ELSE NaN

\* fillna('Unknown') on one cell
fillna(c) == IF IsNaN(c) THEN Str("Unknown") ELSE c

\* value.astype(str) on one cell of a nominal column
astype_str(c) == IF IsStr(c) THEN c.str ELSE IF IsNum(c) THEN ToString(c.num) ELSE "nan"

(***************************************************************************)
(* Python comparison of a cell with an integer.  A string compared with a  *)
(* number raises TypeError; NaN compares False.                            *)
(***************************************************************************)
TypeError == "TypeError"

PyGt(c, n) ==
  IF IsStr(c) THEN TypeError
  ELSE IF IsNum(c) /\ c.num > n THEN "True" ELSE "False"

PyEq(c, n) ==
  IF IsNum(c) /\ c.num = n THEN "True" ELSE "False"

\* the branches of _categorize_severity with the first two exchanged
categorize_severity_serious_first(row) ==
  LET incapacitating == PyGt(row["injuries_incapacitating"], 0)
      fatal == PyGt(row["injuries_fatal"], 0)
      non_incapacitating == PyGt(row["injuries_non_incapacitating"], 0)
  IN IF incapacitating = TypeError THEN TypeError
     ELSE IF incapacitating = "True" THEN "Serious Injury"
     ELSE IF fatal = TypeError THEN TypeError
     ELSE IF fatal = "True" THEN "Fatal"
     ELSE IF non_incapacitating = TypeError THEN TypeError
     ELSE IF non_incapacitating = "True" THEN "Minor Injury"
     ELSE "No Injury"

(***************************************************************************)
(* backend/app.py: _categorize_severity                                    *)
(***************************************************************************)
_categorize_severity(row) ==
  LET f == PyGt(row["injuries_fatal"], 0) IN
  IF f = TypeError THEN TypeError
  ELSE IF f = "True" THEN "Fatal"
  ELSE LET s == PyGt(row["injuries_incapacitating"], 0) IN
    IF s = TypeError THEN TypeError
    ELSE IF s = "True" THEN "Serious Injury"
    ELSE LET m == PyGt(row["injuries_non_incapacitating"], 0) IN
      IF m = TypeError THEN TypeError
      ELSE IF m = "True" THEN "Minor Injury"
      ELSE "No Injury"


(***************************************************************************)
(* Outcomes of a call: a returned value or a raised exception.             *)
(***************************************************************************)
Return(v) == [raised |-> FALSE, value |-> v]
Raise(e) == [raised |-> TRUE, exc |-> e]

\* Python's None for the module-level analyzer
None == [none |-> TRUE]

(***************************************************************************)
(* The file system: the dataset is present at some of the candidate paths, *)
(* and its content either parses into records or does not.                 *)
(***************************************************************************)
DatasetFile(at, parses, rows) == [at |-> at, parses |-> parses, rows |-> rows]

\* the first candidate path that exists, "" when none does
RECURSIVE FirstExisting(_, _)
FirstExisting(paths, at) ==
  IF paths = <<>> THEN ""
  ELSE IF Head(paths) \in at THEN Head(paths)
  ELSE FirstExisting(Tail(paths), at)

(***************************************************************************)
(* backend/app.py: TrafficAccidentAnalyzer.load_and_process_data           *)
(***************************************************************************)
\* pd.to_datetime(crash_time) succeeds when every crash_time parses
ToDatetimeOk(rows) == \A i \in DOMAIN rows : rows[i]["crash_time"] = Str("<timestamp>")

\* the table after the numeric coercion and the 'Unknown' fill
B_Filled(rows) ==
  [i \in DOMAIN rows |->
     [c \in Range(column_names) \cup {"crash_datetime"} |->
        IF c = "crash_datetime"
          THEN fillna(IF ToDatetimeOk(rows) THEN Str("<datetime>") ELSE NaN)
        ELSE IF c \in Range(numeric_cols) THEN fillna(to_numeric(rows[i][c]))
        ELSE fillna(rows[i][c])]]

\* LabelEncoder().fit(...).classes_ : the sorted distinct values of a column
B_Classes(filled, col) ==
  SortedStrings({astype_str(filled[i][col]) : i \in DOMAIN filled})

B_EncodedColumns == {EncodedName(col) : col \in Range(categorical_cols)}

B_ProcessedColumns ==
  Range(column_names) \cup {"crash_datetime", "severity"} \cup B_EncodedColumns

load_and_process_data(rows) ==
  LET df == read_csv(rows)
      filled == B_Filled(df)
      labels == [i \in DOMAIN filled |-> _categorize_severity(filled[i])]
      encoders == [col \in Range(categorical_cols) |-> B_Classes(filled, col)]
      processed ==
        [i \in DOMAIN filled |->
           [c \in B_ProcessedColumns |->
              IF c = "severity" THEN Str(labels[i])
              ELSE IF c \in B_EncodedColumns
                THEN LET col == CHOOSE k \in Range(categorical_cols) : EncodedName(k) = c
                     IN Num(IndexOf(encoders[col], astype_str(filled[i][col])))
              ELSE filled[i][c]]]
  IN IF \E i \in DOMAIN labels : labels[i] = TypeError
       THEN Raise("TypeError")
       ELSE Return([df |-> DataFrame(Range(column_names), df),
                    processed_df |-> DataFrame(B_ProcessedColumns, processed),
                    label_encoders |-> encoders])

(***************************************************************************)
(* backend/app.py: TrafficAccidentAnalyzer.__init__                        *)
(***************************************************************************)
B_possible_paths ==
  << "traffic_accidents.csv", "./traffic_accidents.csv",
     "<backend dir>/traffic_accidents.csv", "<DATASET_PATH>" >>

B_TrafficAccidentAnalyzer(f) ==
  LET csv_file == FirstExisting(B_possible_paths, f.at) IN
  IF csv_file = "" THEN Raise("FileNotFoundError")
  ELSE IF ~f.parses THEN Raise("ParserError")
  ELSE load_and_process_data(f.rows)


(***************************************************************************)
(* pandas helpers.                                                         *)
(***************************************************************************)
\* s reordered by ascending integer key k (k[i] is the key of s[i]); equal
\* keys keep their order (a stable sort)
SortByKeys(s, k) ==
  [p \in DOMAIN s |->
     s[CHOOSE i \in DOMAIN s :
         Cardinality({j \in DOMAIN s : k[j] < k[i] \/ (k[j] = k[i] /\ j < i)}) = p - 1]]

\* the first n elements of s
Head_n(s, n) == IF Len(s) <= n THEN s ELSE SubSeq(s, 1, n)

\* the members of a set of integers, ascending
SortedInts(S) ==
  [p \in 1..Cardinality(S) |-> CHOOSE i \in S : Cardinality({j \in S : j < i}) = p - 1]

\* the distinct non-missing cells of a column, in order of first appearance
FirstSeen(cells) ==
  LET idx == SortedInts({i \in DOMAIN cells :
                 ~IsNaN(cells[i]) /\ \A j \in 1..(i-1) : cells[j] # cells[i]})
  IN [p \in DOMAIN idx |-> cells[idx[p]]]

CountOf(cells, v) == Cardinality({i \in DOMAIN cells : cells[i] = v})

\* Series.value_counts(): (value, count) by descending count, missing
\* values left out
value_counts(cells) ==
  LET vals == FirstSeen(cells)
      pairs == [p \in DOMAIN vals |-> [value |-> vals[p], count |-> CountOf(cells, vals[p])]]
  IN SortByKeys(pairs, [p \in DOMAIN pairs |-> 0 - pairs[p].count])

\* the index of a value_counts() result holds numbers and strings together
MixedIndex(vc) ==
  /\ \E p \in DOMAIN vc : IsStr(vc[p].value)
  /\ \E p \in DOMAIN vc : IsNum(vc[p].value)

\* .sort_index() of a value_counts() result whose keys are of one type
sort_index(vc) ==
  SortByKeys(vc, [p \in DOMAIN vc |->
     IF IsNum(vc[p].value) THEN vc[p].value.num
     ELSE IF vc[p].value.str \in Range(Lexicon) THEN StrRank(vc[p].value.str)
     ELSE 0])

\* Series.mode(): the most frequent non-missing values, sorted
mode(cells) ==
  LET vc == value_counts(cells)
      top == SortedInts({p \in DOMAIN vc : vc[p].count = vc[1].count})
  IN sort_index([p \in DOMAIN top |-> vc[top[p]]])

\* Series.mean() of a numeric column as the fraction sum / count, missing
\* values skipped (count 0 is float nan)
mean(cells) ==
  LET nums == SortedInts({i \in DOMAIN cells : IsNum(cells[i])})
  IN [sum |-> SumSeq([p \in DOMAIN nums |-> cells[nums[p]].num]),
      count |-> Len(nums)]

\* a vectorised comparison  column > n  raises on an object column that
\* holds strings
ColumnGtRaises(cells) == \E i \in DOMAIN cells : IsStr(cells[i])

CountGt(cells, n) == Cardinality({i \in DOMAIN cells : PyGt(cells[i], n) = "True"})
CountEq(cells, n) == Cardinality({i \in DOMAIN cells : PyEq(cells[i], n) = "True"})

(***************************************************************************)
(* backend/app.py: get_basic_stats                                         *)
(***************************************************************************)
B_get_basic_stats(a) ==
  LET total == Column(a.df, "injuries_total")
      fatal == Column(a.df, "injuries_fatal")
      crash == mode(Column(a.df, "first_crash_type"))
      weather == mode(Column(a.df, "weather_condition"))
      lighting == mode(Column(a.df, "lighting_condition"))
  IN IF ColumnGtRaises(fatal) \/ ColumnGtRaises(total) THEN Raise("TypeError")
     ELSE IF crash = <<>> \/ weather = <<>> \/ lighting = <<>> THEN Raise("KeyError")
     ELSE Return(
       [total_accidents |-> Len_df(a.df),
        fatal_accidents |-> CountGt(fatal, 0),
        injury_accidents |-> CountGt(total, 0),
        property_damage_only |-> CountEq(total, 0),
        avg_injuries_per_accident |-> mean(total),
        most_common_crash_type |-> crash[1].value.str,
        most_common_weather |-> weather[1].value.str,
        most_common_lighting |-> lighting[1].value.str])


(***************************************************************************)
(* backend/app.py: get_time_analysis                                       *)
(***************************************************************************)
\* the week written from Monday on
day_names_monday_first ==
  << "Monday", "Tuesday", "Wednesday", "Thursday", "Friday", "Saturday", "Sunday" >>

day_names ==
  << "Sunday", "Monday", "Tuesday", "Wednesday", "Thursday", "Friday", "Saturday" >>

month_names ==
  << "Jan", "Feb", "Mar", "Apr", "May", "Jun",
     "Jul", "Aug", "Sep", "Oct", "Nov", "Dec" >>

\* a label of the result: a fixed name, or a formatted f'{name} {n}'
Label(name, n) == [name |-> name, n |-> n]

\* Python list indexing names[i]: negative i counts from the end, an index
\* outside -len..len-1 raises IndexError
PyIndex(names, i) ==
  IF 0 <= i /\ i < Len(names) THEN names[i + 1]
  ELSE IF 0 - Len(names) <= i /\ i < 0 THEN names[Len(names) + i + 1]
  ELSE "IndexError"

\* day_names[int(day)-1] if not pd.isna(day) and day < 8 else f'Day {int(day)}'
B_DayLabel(day) ==
  IF day < 8 THEN Label(PyIndex(day_names, day - 1), 0) ELSE Label("Day", day)

\* month_names[int(month)-1] if ... 1 <= month <= 12 else f'Month {int(month)}'
B_MonthLabel(month) ==
  IF 1 <= month /\ month <= 12 THEN Label(month_names[month], 0) ELSE Label("Month", month)

B_get_time_analysis(a) ==
  LET hour_vc == value_counts(Column(a.processed_df, "crash_hour"))
      day_vc == value_counts(Column(a.processed_df, "crash_day_of_week"))
      month_vc == value_counts(Column(a.processed_df, "crash_month"))
      hour_counts == sort_index(hour_vc)
      day_counts == sort_index(day_vc)
      month_counts == sort_index(month_vc)
      HasStr(vc) == \E p \in DOMAIN vc : IsStr(vc[p].value)
      daily == [p \in DOMAIN day_counts |->
                  [day |-> B_DayLabel(day_counts[p].value.num),
                   accidents |-> day_counts[p].count]]
  IN \* sort_index() compares the keys: '<' between str and float raises
     IF MixedIndex(hour_vc) \/ MixedIndex(day_vc) \/ MixedIndex(month_vc)
       THEN Raise("TypeError")
     \* int('Unknown') raises
     ELSE IF HasStr(hour_counts) \/ HasStr(day_counts) \/ HasStr(month_counts)
       THEN Raise("ValueError")
     ELSE IF \E p \in DOMAIN daily : daily[p].day.name = "IndexError"
       THEN Raise("IndexError")
     ELSE Return(
       [hourly_distribution |->
          [p \in DOMAIN hour_counts |->
             [hour |-> hour_counts[p].value.num, accidents |-> hour_counts[p].count]],
        daily_distribution |-> daily,
        monthly_distribution |->
          [p \in DOMAIN month_counts |->
             [month |-> B_MonthLabel(month_counts[p].value.num),
              accidents |-> month_counts[p].count]]])

(***************************************************************************)
(* backend/app.py: get_severity_analysis                                   *)
(***************************************************************************)
\* groupby([by, 'severity']).size().unstack(fill_value=0) as a function
\* from the levels of `by` to a function from severity to count
B_CrossTab(a, by) ==
  LET rows == a.processed_df.rows
      levels == {rows[i][by].str : i \in DOMAIN rows}
      sevs == {rows[i]["severity"].str : i \in DOMAIN rows}
  IN [l \in levels |-> [sv \in sevs |->
        Cardinality({i \in DOMAIN rows : rows[i][by].str = l /\ rows[i]["severity"].str = sv})]]

B_get_severity_analysis(a) ==
  LET severity_counts == value_counts(Column(a.processed_df, "severity"))
  IN Return(
       [severity_distribution |->
          [p \in DOMAIN severity_counts |->
             [severity |-> severity_counts[p].value.str, count |-> severity_counts[p].count]],
        severity_by_weather |-> B_CrossTab(a, "weather_condition"),
        severity_by_lighting |-> B_CrossTab(a, "lighting_condition")])

(***************************************************************************)
(* backend/app.py: get_location_analysis                                   *)
(***************************************************************************)
\* value_counts().head(10)
TopN == 10

B_TopDistribution(a, col) ==
  LET vc == Head_n(value_counts(Column(a.df, col)), TopN)
  IN [p \in DOMAIN vc |-> [type |-> astype_str(vc[p].value), count |-> vc[p].count]]

B_get_location_analysis(a) ==
  Return(
    [traffic_control_distribution |-> B_TopDistribution(a, "traffic_control_device"),
     road_surface_distribution |-> B_TopDistribution(a, "roadway_surface_cond"),
     trafficway_distribution |-> B_TopDistribution(a, "trafficway_type")])


(***************************************************************************)
(* scikit-learn, as far as the analyzer depends on it.                     *)
(***************************************************************************)
\* StandardScaler().fit_transform(X) / estimator.fit(X): a cell that is not
\* a number or the text of one cannot be converted to float, and an empty X
\* is rejected
SklearnRejects(rows) ==
  \/ rows = <<>>
  \/ \E i \in DOMAIN rows : \E c \in DOMAIN rows[i] :
       ~IsNum(rows[i][c]) /\ rows[i][c] # NumText(rows[i][c].num)

\* a labelling that uses one label more than the clusters asked for
KMeansLabels_one_extra(points, n, random_state) ==
  LET first == SortedInts({i \in DOMAIN points : \A j \in 1..(i-1) : points[j] # points[i]})
  IN [i \in DOMAIN points |->
        ((CHOOSE d \in DOMAIN first : points[first[d]] = points[i]) - 1 + random_state) % (n + 1)]

\* KMeans(n_clusters, random_state).fit_predict(X): the label of every
\* point.  Equal points share a label; with at least n distinct points no
\* cluster is empty.  The labelling depends on the data, on n and on the
\* random state only.
KMeansLabels(points, n, random_state) ==
  LET first == SortedInts({i \in DOMAIN points : \A j \in 1..(i-1) : points[j] # points[i]})
  IN [i \in DOMAIN points |->
        ((CHOOSE d \in DOMAIN first : points[first[d]] = points[i]) - 1 + random_state) % n]

(***************************************************************************)
(* backend/app.py: perform_clustering                                      *)
(***************************************************************************)
\* a random state that is not fixed: it changes from request to request
B_random_state_unseeded == served

\* the random_state passed to DataFrame.sample and to KMeans
B_random_state == 42

\* the working set is subsampled above this size
B_SampleLimit == 50000

B_important_encoded_cols ==
  << "traffic_control_device_encoded", "weather_condition_encoded",
     "lighting_condition_encoded", "first_crash_type_encoded",
     "roadway_surface_cond_encoded" >>

B_cluster_feature_cols ==
  B_important_encoded_cols \o
    << "crash_hour", "crash_day_of_week", "crash_month", "injuries_total" >>

\* df[cols]: a new frame holding the chosen columns
Project(rows, cols) == [i \in DOMAIN rows |-> [c \in Range(cols) |-> rows[i][c]]]

\* get_time_range(hour): "<start>:00 <AM|PM> - <end>:00 <AM|PM> (<note>)"
TimeRange(sh, ss, eh, es, note) ==
  [start |-> sh, start_suffix |-> ss, end |-> eh, end_suffix |-> es, note |-> note]

get_time_range(hour) ==
  IF hour = 0 THEN TimeRange(12, "AM", 1, "AM", "Midnight")
  ELSE IF hour < 12 THEN TimeRange(hour, "AM", hour + 1, "AM", "")
  ELSE IF hour = 12 THEN TimeRange(12, "PM", 1, "PM", "Noon")
  ELSE TimeRange(hour - 12, "PM", hour - 11, "PM", "")

month_map ==
  << "January", "February", "March", "April", "May", "June", "July",
     "August", "September", "October", "November", "December" >>

\* month_map.get(primary_period, f'Period {primary_period}')
B_PeriodLabel(period) ==
  IF period \in DOMAIN month_map THEN Label(month_map[period], 0) ELSE Label("Period", period)

\* 'High' if mean > 0.6 else 'Medium' if mean > 0.3 else 'Low'
B_RiskLevel(m) ==
  IF m.count = 0 THEN "Low"
  ELSE IF 10 * m.sum > 6 * m.count THEN "High"
  ELSE IF 10 * m.sum > 3 * m.count THEN "Medium"
  ELSE "Low"

\* the summary of cluster i, over the rows of the working set labelled i
B_ClusterSummary(cluster_df, clusters, i) ==
  LET idx == SortedInts({k \in DOMAIN cluster_df : clusters[k] = i})
      cluster_data == [p \in DOMAIN idx |-> cluster_df[idx[p]]]
      injuries == [p \in DOMAIN cluster_data |-> cluster_data[p]["injuries_total"]]
      hours == [p \in DOMAIN cluster_data |-> cluster_data[p]["crash_hour"]]
      days == [p \in DOMAIN cluster_data |-> cluster_data[p]["crash_day_of_week"]]
      months == [p \in DOMAIN cluster_data |-> cluster_data[p]["crash_month"]]
      primary_hour == mode(hours)[1].value.num
      primary_period == mode(days)[1].value.num
  IN [size |-> Len(cluster_data),
      percentage |-> [sum |-> 100 * Len(cluster_data), count |-> Len(cluster_df)],
      avg_injuries |-> mean(injuries),
      injury_distribution |->
        [no_injury |-> CountEq(injuries, 0),
         minor |-> CountGt(injuries, 0) - CountGt(injuries, 2),
         serious |-> CountGt(injuries, 2)],
      common_hour |-> primary_hour,
      common_day |-> primary_period,
      common_month |-> mode(months)[1].value.num,
      risk_level |-> B_RiskLevel(mean(injuries)),
      cluster_label |-> Label("Cluster", i),
      hour_description |-> get_time_range(primary_hour),
      period_description |-> B_PeriodLabel(primary_period),
      hour_distribution |-> Head_n(value_counts(hours), 3),
      day_distribution |-> value_counts(days)]

B_perform_clustering(a, n_clusters, random_state) ==
  LET selected == DropNa(Project(a.processed_df.rows, B_cluster_feature_cols))
      cluster_df == IF Len(selected) > B_SampleLimit
                      THEN Head_n(selected, B_SampleLimit) ELSE selected
      clusters == KMeansLabels(cluster_df, n_clusters, random_state)
  IN IF SklearnRejects(cluster_df) THEN Raise("ValueError")
     ELSE IF n_clusters < 1 \/ Len(cluster_df) < n_clusters THEN Raise("ValueError")
     \* an empty cluster has no modal hour: hour_dist.index[0] raises
     ELSE IF \E i \in 0..(n_clusters - 1) : \A k \in DOMAIN clusters : clusters[k] # i
       THEN Raise("IndexError")
     ELSE Return(
       [algorithm |-> "K-Means",
        n_clusters |-> n_clusters,
        total_accidents |-> Len(cluster_df),
        cluster_analysis |->
          [i \in 0..(n_clusters - 1) |-> B_ClusterSummary(cluster_df, clusters, i)],
        feature_names |-> B_cluster_feature_cols])


(***************************************************************************)
(* backend/app.py: train_severity_model                                    *)
(***************************************************************************)
\* the order in which load_and_process_data attaches the derived columns
B_processed_column_order ==
  column_names \o << "crash_datetime", "severity" >> \o
    [k \in DOMAIN categorical_cols |-> EncodedName(categorical_cols[k])]

\* col.endswith('_encoded')
EndsWithEncoded(col) == col \in B_EncodedColumns

\* no column is held back from the features
injury_related_none == {}

injury_related ==
  { "most_severe_injury_encoded", "injuries_total_encoded", "injuries_fatal_encoded",
    "injuries_incapacitating_encoded", "injuries_non_incapacitating_encoded",
    "injuries_reported_not_evident_encoded", "injuries_no_indication_encoded" }

B_model_feature_cols(columns) ==
  SelectSeq(B_processed_column_order,
            LAMBDA col : col \in columns /\ EndsWithEncoded(col) /\ col \notin injury_related)
    \o << "crash_hour", "crash_day_of_week", "crash_month", "num_units" >>

\* train_test_split(test_size=0.2): n_test = ceil(0.2 n)
TestSize(n) == (n + 4) \div 5

\* train_test_split(..., stratify=y) refuses a class with one member and a
\* split side smaller than the number of classes
SplitRaises(y) ==
  LET n == Len(y)
      classes == Range(y)
  IN \/ n = 0
     \/ n - TestSize(n) = 0
     \/ \E k \in classes : CountOf(y, k) < 2
     \/ TestSize(n) < Cardinality(classes)
     \/ n - TestSize(n) < Cardinality(classes)

\* sklearn's _approximate_mode(class_counts, n_draws, rng): the draws are
\* shared out in proportion to the class counts, rounded down, and the draws
\* left over go to the classes with the largest remainders.  Equal
\* remainders are ordered by the seeded generator; the model takes them in
\* class order.
ApproximateMode(counts, n_draws) ==
  LET total == SumSeq(counts)
      floored == [k \in DOMAIN counts |-> (counts[k] * n_draws) \div total]
      left == [k \in DOMAIN counts |-> (counts[k] * n_draws) % total]
      need_to_add == n_draws - SumSeq(floored)
  IN [k \in DOMAIN counts |->
        floored[k] +
          (IF Cardinality({j \in DOMAIN counts :
                             left[j] > left[k] \/ (left[j] = left[k] /\ j < k)}) < need_to_add
             THEN 1 ELSE 0)]

\* train_test_split(X, y, test_size=0.2, random_state=42, stratify=y): the
\* positions of the training and of the test rows.  Each class gives its
\* share to the training side and the rest to the test side; which members
\* of a class go where is fixed by the seed, the model sends the first ones
\* to the training side.
train_test_split(y) ==
  LET classes == SortedStrings(Range(y))
      class_counts == [k \in DOMAIN classes |-> CountOf(y, classes[k])]
      n_i == ApproximateMode(class_counts, Len(y) - TestSize(Len(y)))
      InTrain(i) ==
        Cardinality({j \in 1..(i - 1) : y[j] = y[i]})
          < n_i[CHOOSE k \in DOMAIN classes : classes[k] = y[i]]
  IN [train |-> SortedInts({i \in DOMAIN y : InTrain(i)}),
      test |-> SortedInts({i \in DOMAIN y : ~InTrain(i)})]

\* min_samples_split of the decision tree
min_samples_split == 50

\* DecisionTreeClassifier(class_weight='balanced', min_samples_split=50,
\* ...).fit(X_train, y_train).predict(X_test).  A training set of fewer than
\* min_samples_split rows leaves the tree with its root only; the balanced
\* weights give every class the same weight there and argmax takes the first
\* class.  A larger training set is told apart by its features.
DecisionTreePredict(X_train, y_train, x, forest) ==
  IF Len(y_train) < min_samples_split
    THEN SortedStrings(Range(y_train))[1]
    ELSE forest

\* RandomForestClassifier(class_weight='balanced').fit(X_train, y_train)
\* .predict(X_test) for one row: the class that holds the largest share of
\* its members among the training rows with the features of x (the first
\* such class; the first class when no training row has these features)
RandomForestPredict(X_train, y_train, x) ==
  LET classes == SortedStrings(Range(y_train))
      Matching(c) == Cardinality({i \in DOMAIN y_train : y_train[i] = c /\ X_train[i] = x})
      Best(c) == \A d \in Range(classes) :
                   Matching(c) * CountOf(y_train, d) >= Matching(d) * CountOf(y_train, c)
  IN classes[CHOOSE k \in DOMAIN classes :
               /\ Best(classes[k])
               /\ \A j \in 1..(k - 1) : ~Best(classes[j])]

\* confusion_matrix(y_true, y_pred): one row and one column per label that
\* occurs in y_true or in y_pred, in sorted order
confusion_matrix(y_true, y_pred) ==
  LET labels == SortedStrings(Range(y_true) \cup Range(y_pred))
  IN [r \in DOMAIN labels |-> [c \in DOMAIN labels |->
        Cardinality({i \in DOMAIN y_true : y_true[i] = labels[r] /\ y_pred[i] = labels[c]})]]

\* accuracy_score(y_true, y_pred)
accuracy_score(y_true, y_pred) ==
  [sum |-> Cardinality({i \in DOMAIN y_true : y_pred[i] = y_true[i]}),
   count |-> Len(y_true)]

\* the three renderings of the fitted tree
Renderings == {"decision_tree_rules", "decision_tree_full", "decision_tree_graphviz"}

\* the renderings a request's environment lets succeed, as a number
RenderCode(render_ok) ==
  (IF render_ok["decision_tree_rules"] THEN 1 ELSE 0)
    + (IF render_ok["decision_tree_full"] THEN 2 ELSE 0)
    + (IF render_ok["decision_tree_graphviz"] THEN 4 ELSE 0)

\* one failed rendering spoils all three sub-fields
B_model_structures_shared_marker(render_ok) ==
  IF \A f \in Renderings : render_ok[f]
    THEN [decision_tree_rules |-> "<tree text>",
          decision_tree_full |-> "<tree text>",
          decision_tree_graphviz |-> [svg_data |-> "<svg>"]]
    ELSE [decision_tree_rules |-> "Error: Could not generate decision tree structure",
          decision_tree_full |-> "Error generating tree structure",
          decision_tree_graphviz |->
            [error |-> "Failed to generate graphviz tree", svg_data |-> None]]

\* export_text (twice) and export_graphviz + graphviz rendering either work
\* in the process's environment or raise; each failure is caught where it
\* occurs and leaves its marker in its own sub-field
B_model_structures(render_ok) ==
  [decision_tree_rules |->
     IF render_ok["decision_tree_rules"]
       THEN "<tree text>" ELSE "Error: Could not generate decision tree structure",
   decision_tree_full |->
     IF render_ok["decision_tree_full"]
       THEN "<tree text>" ELSE "Error generating tree structure",
   decision_tree_graphviz |->
     IF render_ok["decision_tree_graphviz"]
       THEN [svg_data |-> "<svg>"]
       ELSE [error |-> "Failed to generate graphviz tree", svg_data |-> None]]

\* the report returned for the test labels and the two models' predictions
B_report(feature_cols, y_test, rf_pred, dt_pred, render_ok) ==
  Return(
    [random_forest |-> [accuracy |-> accuracy_score(y_test, rf_pred),
                        confusion_matrix |-> confusion_matrix(y_test, rf_pred)],
     decision_tree |-> [accuracy |-> accuracy_score(y_test, dt_pred),
                        confusion_matrix |-> confusion_matrix(y_test, dt_pred)],
     feature_cols |-> feature_cols,
     class_labels |-> SortedStrings(Range(y_test) \cup Range(rf_pred) \cup Range(dt_pred)),
     test_size |-> Len(y_test),
     better_model |->
       IF accuracy_score(y_test, rf_pred).sum > accuracy_score(y_test, dt_pred).sum
         THEN "Random Forest" ELSE "Decision Tree",
     model_structures |-> B_model_structures(render_ok)])

\* both models fitted on the training rows and applied to the test rows
B_fit(feature_cols, X_train, y_train, X_test, y_test, render_ok) ==
  B_report(feature_cols, y_test,
           [p \in DOMAIN X_test |-> RandomForestPredict(X_train, y_train, X_test[p])],
           [p \in DOMAIN X_test |->
              DecisionTreePredict(X_train, y_train, X_test[p],
                                  RandomForestPredict(X_train, y_train, X_test[p]))],
           render_ok)

B_split(feature_cols, X, y, split, render_ok) ==
  B_fit(feature_cols,
        [p \in DOMAIN split.train |-> X[split.train[p]]],
        [p \in DOMAIN split.train |-> y[split.train[p]]],
        [p \in DOMAIN split.test |-> X[split.test[p]]],
        [p \in DOMAIN split.test |-> y[split.test[p]]],
        render_ok)

B_train_on(feature_cols, model_df, render_ok) ==
  IF SplitRaises([i \in DOMAIN model_df |-> model_df[i]["severity"].str])
    THEN Raise("ValueError")
  ELSE IF SklearnRejects(Project(model_df, feature_cols)) THEN Raise("ValueError")
  ELSE B_split(feature_cols, Project(model_df, feature_cols),
               [i \in DOMAIN model_df |-> model_df[i]["severity"].str],
               train_test_split([i \in DOMAIN model_df |-> model_df[i]["severity"].str]),
               render_ok)

B_train_severity_model(a, render_ok) ==
  B_train_on(B_model_feature_cols(a.processed_df.columns),
             DropNa(Project(a.processed_df.rows,
                            B_model_feature_cols(a.processed_df.columns) \o << "severity" >>)),
             render_ok)


(***************************************************************************)
(* backend/app.py: generate_association_rules                              *)
(***************************************************************************)
B_binary_cols ==
  << "weather_condition", "lighting_condition", "first_crash_type",
     "traffic_control_device", "roadway_surface_cond" >>

\* a column of the binary transaction table: the dummy f'{field}_{level}',
\* or one of the three derived flags (level "")
Item(field, level) == [field |-> field, level |-> level]

\* the most frequent levels kept for each field
TopCategories == 4

\* the rules returned at most
TopRules == 15

\* pd.get_dummies(...).sum().nlargest(4).index: the levels in sorted order,
\* the four most frequent of them, the first of equally frequent ones first
B_top_categories(a, col) ==
  LET levels == sort_index(value_counts(Column(a.df, col)))
      by_count == SortByKeys(levels, [p \in DOMAIN levels |-> 0 - levels[p].count])
      top == Head_n(by_count, TopCategories)
  IN [p \in DOMAIN top |-> Item(col, astype_str(top[p].value))]

B_binary_columns(a) ==
  B_top_categories(a, B_binary_cols[1]) \o B_top_categories(a, B_binary_cols[2]) \o
  B_top_categories(a, B_binary_cols[3]) \o B_top_categories(a, B_binary_cols[4]) \o
  B_top_categories(a, B_binary_cols[5]) \o
  << Item("high_injury", ""), Item("fatal_accident", ""), Item("multiple_vehicles", "") >>

\* whether the binary table holds 1 for this row and this item
B_Holds(row, item) ==
  IF item.field = "high_injury" THEN PyGt(row["injuries_total"], 1) = "True"
  ELSE IF item.field = "fatal_accident" THEN PyGt(row["injuries_fatal"], 0) = "True"
  ELSE IF item.field = "multiple_vehicles" THEN PyGt(row["num_units"], 1) = "True"
  ELSE ~IsNaN(row[item.field]) /\ astype_str(row[item.field]) = item.level

obvious_patterns ==
  { << Item("weather_condition", "CLEAR"), Item("lighting_condition", "DAYLIGHT") >>,
    << Item("lighting_condition", "DAYLIGHT"), Item("weather_condition", "CLEAR") >>,
    << Item("weather_condition", "RAIN"), Item("roadway_surface_cond", "WET") >>,
    << Item("roadway_surface_cond", "WET"), Item("weather_condition", "RAIN") >>,
    << Item("weather_condition", "SNOW"), Item("roadway_surface_cond", "SNOW OR SLUSH") >>,
    << Item("roadway_surface_cond", "SNOW OR SLUSH"), Item("weather_condition", "SNOW") >>,
    << Item("lighting_condition", "DARKNESS"), Item("lighting_condition", "LIGHTED") >> }

outcome_keywords == { "high_injury", "fatal_accident", "multiple_vehicles", "first_crash_type" }
environment_keywords == { "weather_condition", "lighting_condition", "roadway_surface_cond" }

\* the relevance test of one mined rule (antecedents and consequents are
\* sets of items, lift the fraction num / den)
B_is_obvious(ants, cons) ==
  \E ant \in ants : \E c \in cons :
     \/ << ant, c >> \in obvious_patterns
     \/ << c, ant >> \in obvious_patterns
     \/ (ant.field = "weather_condition" /\ c.field = "roadway_surface_cond")
     \/ (ant.field = "roadway_surface_cond" /\ c.field = "weather_condition")

B_has_accident_outcome(cons) == \E c \in cons : c.field \in outcome_keywords

\* only a consequent made of environmental items alone counts
B_predicts_environment_only(cons) == \A c \in cons : c.field \in environment_keywords

B_predicts_environment(cons) == \E c \in cons : c.field \in environment_keywords

\* the comparison written with >=
B_lift_ok_at_least(lift) == 10 * lift.num >= 11 * lift.den

\* rule['lift'] > 1.1.  mlxtend divides in double precision; on tables of up
\* to 21 records the outcome is that of the exact comparison
B_lift_ok(lift) == 10 * lift.num > 11 * lift.den

\* a relevance test that looks at the lift only
B_keep_rule_lift_only(ants, cons, lift) == 10 * lift.num > 11 * lift.den

B_keep_rule(ants, cons, lift) ==
  /\ ~B_is_obvious(ants, cons)
  /\ B_has_accident_outcome(cons)
  /\ ~B_predicts_environment(cons)
  /\ B_lift_ok(lift)

\* 2^n
RECURSIVE Pow2(_)
Pow2(n) == IF n = 0 THEN 1 ELSE 2 * Pow2(n - 1)

\* a set of column positions as a number whose most significant bit is the
\* first column: among sets of one size, the itemset that apriori lists
\* first has the larger number
RevMask(S, m) == SumSeq([p \in 1..m |-> IF p \in S THEN Pow2(m - p) ELSE 0])

\* association_rules(..., metric="confidence", min_threshold=0.6)
min_confidence_tenths == 6

\* the transactions: for every row the set of columns (positions in cols)
\* that hold 1
B_transactions(cols, rows) ==
  [i \in DOMAIN rows |-> {p \in DOMAIN cols : B_Holds(rows[i], cols[p])}]

\* the number of transactions that contain every column of S
SupportCount(T, S) == Cardinality({i \in DOMAIN T : S \subseteq T[i]})

\* apriori(binary_df, min_support): the itemsets whose support reaches the
\* minimum (min_support given in percent)
B_frequent_itemsets(T, min_support_pct) ==
  {S \in UNION {SUBSET T[i] : i \in DOMAIN T} :
     S # {} /\ 100 * SupportCount(T, S) >= min_support_pct * Len(T)}

\* association_rules(frequent_itemsets): every split of a frequent itemset
\* into antecedent and consequent whose confidence reaches the threshold;
\* support, confidence and lift as fractions
B_mined_rules(T, frequent) ==
  UNION { { [itemset |-> I, ant |-> A, cons |-> I \ A,
             support |-> [num |-> SupportCount(T, I), den |-> Len(T)],
             confidence |-> [num |-> SupportCount(T, I), den |-> SupportCount(T, A)],
             lift |-> [num |-> SupportCount(T, I) * Len(T),
                       den |-> SupportCount(T, A) * SupportCount(T, I \ A)]]
            : A \in {A \in SUBSET I : A # {} /\ A # I /\
                       10 * SupportCount(T, I) >= min_confidence_tenths * SupportCount(T, A)} }
          : I \in {S \in frequent : Cardinality(S) >= 2} }

\* the least member of a set of integers
MinOf(S) == CHOOSE x \in S : \A y \in S : x <= y

\* the smallest of a set of lifts
B_min_lift(lifts) == CHOOSE l \in lifts : \A q \in lifts : l.num * q.den <= q.num * l.den

\* the largest of a set of lifts
B_max_lift(lifts) == CHOOSE l \in lifts : \A q \in lifts : l.num * q.den >= q.num * l.den

\* the rules of lift l
B_with_lift(rules, l) == {r \in rules : r.lift.num * l.den = l.num * r.lift.den}

\* the rules of the largest lift
B_best_lift(rules) == B_with_lift(rules, B_max_lift({r.lift : r \in rules}))

\* the members of S whose key is k, and those whose key is least
WithKey(S, key(_), k) == {r \in S : key(r) = k}
Least(S, key(_)) == WithKey(S, key, MinOf({key(q) : q \in S}))

\* the rule that rules_list.sort(key=lift, reverse=True) puts first: the
\* largest lift, and among equal lifts the rule mined first (the smaller
\* itemset, then the itemset listed first, then the larger antecedent, then
\* the antecedent listed first)
B_first_rule(rules, m) ==
  CHOOSE r \in
    Least(Least(Least(Least(B_best_lift(rules),
                            LAMBDA r : Cardinality(r.itemset)),
                      LAMBDA r : 0 - RevMask(r.itemset, m)),
                LAMBDA r : 0 - Cardinality(r.ant)),
          LAMBDA r : 0 - RevMask(r.ant, m)) : TRUE

\* the first k rules of the sorted list
RECURSIVE B_sorted_head(_, _, _)
B_sorted_from(f, rules, m, k) == << f >> \o B_sorted_head(rules \ {f}, m, k - 1)

B_sorted_head(rules, m, k) ==
  IF k = 0 \/ rules = {} THEN <<>>
  ELSE B_sorted_from(B_first_rule(rules, m), rules, m, k)

\* the empty list without its note
B_no_rules_unmarked == [rules |-> <<>>]

\* return {'rules': [], 'error': 'No significant association rules found'}
B_no_rules == [rules |-> <<>>, error |-> "No significant association rules found"]

\* the names of a set of column positions
B_items(cols, S) == {cols[p] : p \in S}

\* rules_list: the mined rules that pass the relevance test
B_rules_list(cols, rules) ==
  {r \in rules : B_keep_rule(B_items(cols, r.ant), B_items(cols, r.cons), r.lift)}

\* one element of rules_list; list(rule['antecedents']) lists the members
\* of a frozenset, kept here as the set
B_rule_record(cols, r) ==
  [antecedents |-> B_items(cols, r.ant),
   consequents |-> B_items(cols, r.cons),
   support |-> r.support,
   confidence |-> r.confidence,
   lift |-> r.lift]

\* return {'rules': rules_list[:15]}
B_rules_top(cols, top) ==
  [rules |-> [p \in DOMAIN top |-> B_rule_record(cols, top[p])]]

\* if len(rules) > 0: ...
B_rules_result(cols, rules) ==
  IF rules = {} THEN B_no_rules
  ELSE B_rules_top(cols, B_sorted_head(B_rules_list(cols, rules), Len(cols), TopRules))

\* if len(frequent_itemsets) > 0: rules = association_rules(...)
B_rules_of_itemsets(cols, T, frequent) ==
  IF frequent = {} THEN B_no_rules ELSE B_rules_result(cols, B_mined_rules(T, frequent))

\* the try block; apriori rejects min_support <= 0 with a ValueError that
\* the except clause catches
B_mine(cols, T, min_support_pct) ==
  IF min_support_pct <= 0 THEN B_no_rules
  ELSE B_rules_of_itemsets(cols, T, B_frequent_itemsets(T, min_support_pct))

B_generate_association_rules(a, min_support_pct) ==
  \* the three flag columns are computed before the try block
  IF \/ ColumnGtRaises(Column(a.df, "injuries_total"))
     \/ ColumnGtRaises(Column(a.df, "injuries_fatal"))
     \/ ColumnGtRaises(Column(a.df, "num_units"))
    THEN Raise("TypeError")
  ELSE Return(B_mine(B_binary_columns(a),
                     B_transactions(B_binary_columns(a), a.df.rows),
                     min_support_pct))


(***************************************************************************)
(* netlify/functions/api.py: the simplified analyzer.                      *)
(***************************************************************************)
N_possible_paths ==
  << "/opt/build/repo/traffic_accidents.csv", "../../traffic_accidents.csv",
     "../traffic_accidents.csv", "./traffic_accidents.csv",
     "<function dir>/../../traffic_accidents.csv" >>

N_categorical_columns ==
  << "traffic_control_device", "weather_condition", "lighting_condition",
     "first_crash_type", "trafficway_type", "alignment", "roadway_surface_cond",
     "crash_type", "prim_contributory_cause" >>

\* LabelEncoder on one column of a frame: classes_ and the encoded cell
N_Classes(rows, col) == SortedStrings({astype_str(rows[i][col]) : i \in DOMAIN rows})

N_Encode(rows, cols) ==
  [i \in DOMAIN rows |->
     [c \in DOMAIN rows[i] |->
        IF c \in cols THEN Num(IndexOf(N_Classes(rows, c), astype_str(rows[i][c])))
        ELSE rows[i][c]]]

\* a numeric column that holds a missing value is float64, and stays so
\* after dropna(); its values are then no list indices
FloatColumns(rows) ==
  {c \in Range(column_names) :
     ColumnIsNumeric(rows, c) /\ \E i \in DOMAIN rows : IsNaN(rows[i][c])}

\* load_and_process_data
N_load_and_process_data(rows) ==
  LET df == DropNa(read_csv(rows))
      cols == {c \in Range(N_categorical_columns) : c \in Range(column_names)}
  IN Return([df |-> DataFrame(Range(column_names), df),
             processed_df |-> DataFrame(Range(column_names), N_Encode(df, cols)),
             label_encoders |-> [c \in cols |-> N_Classes(df, c)],
             float_cols |-> FloatColumns(rows)])

\* create_sample_data: n_samples seeded draws over nine columns.  The draw
\* is a fixed function of the seed; the model keeps three of the records.
N_sample_columns ==
  { "crash_hour", "crash_day_of_week", "crash_month", "weather_condition",
    "lighting_condition", "first_crash_type", "injuries_total", "injuries_fatal",
    "num_units" }

N_SampleRow(hour, day, month, weather, lighting, crash, total, fatal, units) ==
  [c \in N_sample_columns |->
     CASE c = "crash_hour" -> Num(hour)
       [] c = "crash_day_of_week" -> Num(day)
       [] c = "crash_month" -> Num(month)
       [] c = "weather_condition" -> Str(weather)
       [] c = "lighting_condition" -> Str(lighting)
       [] c = "first_crash_type" -> Str(crash)
       [] c = "injuries_total" -> Num(total)
       [] c = "injuries_fatal" -> Num(fatal)
       [] c = "num_units" -> Num(units)]

N_sample_rows ==
  << N_SampleRow(6, 4, 11, "CLEAR", "DAWN", "REAR END", 0, 0, 3),
     N_SampleRow(19, 5, 3, "SNOW", "DARKNESS", "ANGLE", 1, 0, 1),
     N_SampleRow(14, 1, 7, "RAIN", "DAYLIGHT", "HEAD ON", 0, 1, 2) >>

N_create_sample_data ==
  LET cols == {"weather_condition", "lighting_condition", "first_crash_type"}
  IN Return([df |-> DataFrame(N_sample_columns, N_sample_rows),
             processed_df |-> DataFrame(N_sample_columns, N_Encode(N_sample_rows, cols)),
             label_encoders |-> [c \in cols |-> N_Classes(N_sample_rows, c)],
             float_cols |-> {}])

\* TrafficAccidentAnalyzer.__init__
N_TrafficAccidentAnalyzer(f) ==
  LET csv_file == FirstExisting(N_possible_paths, f.at) IN
  IF csv_file = "" THEN N_create_sample_data
  ELSE IF ~f.parses THEN Raise("ParserError")
  ELSE N_load_and_process_data(f.rows)

(***************************************************************************)
(* netlify/functions/api.py: get_basic_stats                               *)
(***************************************************************************)
\* the number of decimal digits of n >= 0
Digits(n) == IF n < 10 THEN 1 ELSE IF n < 100 THEN 2 ELSE 3

RECURSIVE Pow10(_)
Pow10(n) == IF n = 0 THEN 1 ELSE 10 * Pow10(n - 1)

\* int(''.join(numerals)) for numerals of non-negative numbers
RECURSIVE ConcatNumerals(_)
ConcatNumerals(ns) ==
  IF ns = <<>> THEN 0
  ELSE ConcatNumerals(SubSeq(ns, 1, Len(ns) - 1)) * Pow10(Digits(ns[Len(ns)])) + ns[Len(ns)]

\* int(column.sum()): numbers add up (missing values skipped); on an object
\* column the strings are concatenated and the text is parsed
N_IntSum(cells) ==
  IF \E i \in DOMAIN cells : IsStr(cells[i]) THEN
    IF \E i \in DOMAIN cells : cells[i] # NumText(cells[i].num) \/ cells[i].num < 0
      THEN Raise("ValueError")
      ELSE Return(ConcatNumerals([i \in DOMAIN cells |-> cells[i].num]))
  ELSE Return(mean(cells).sum)

N_get_basic_stats(a) ==
  LET total == Column(a.df, "injuries_total")
      fatal_accidents == N_IntSum(Column(a.df, "injuries_fatal"))
      injury_accidents == CountGt(total, 0)
      crash == mode(Column(a.df, "first_crash_type"))
      weather == mode(Column(a.df, "weather_condition"))
      lighting == mode(Column(a.df, "lighting_condition"))
  IN IF fatal_accidents.raised THEN fatal_accidents
     ELSE IF ColumnGtRaises(total) THEN Raise("TypeError")
     ELSE IF crash = <<>> \/ weather = <<>> \/ lighting = <<>> THEN Raise("IndexError")
     ELSE Return(
       [total_accidents |-> Len_df(a.df),
        fatal_accidents |-> fatal_accidents.value,
        injury_accidents |-> injury_accidents,
        property_damage_only |-> Len_df(a.df) - injury_accidents,
        avg_injuries_per_accident |-> mean(total),
        most_common_crash_type |-> astype_str(crash[1].value),
        most_common_weather |-> astype_str(weather[1].value),
        most_common_lighting |-> astype_str(lighting[1].value)])


(***************************************************************************)
(* netlify/functions/api.py: get_time_analysis                             *)
(***************************************************************************)
\* the place of the numeral of n among strings: "-1" < "0" < "13" < "3"
NumeralKey(n) ==
  LET k(x) == IF x < 10 THEN 11 * x ELSE 11 * (x \div 10) + (x % 10) + 1
  IN IF n < 0 THEN k(0 - n) - 1000 ELSE k(n)

\* value_counts().sort_index() of a column of df: numbers by value, the
\* strings of an object column by text
N_sorted_counts(cells) ==
  LET vc == value_counts(cells)
  IN SortByKeys(vc, [p \in DOMAIN vc |->
       IF IsNum(vc[p].value) THEN vc[p].value.num
       ELSE IF vc[p].value = NumText(vc[p].value.num) THEN NumeralKey(vc[p].value.num)
       ELSE 1000])

\* names[key - 1] for every key of a distribution: raises TypeError for a
\* str or float key, IndexError for a key with no name
N_NameRaises(a, col, counts, names) ==
  IF counts = <<>> THEN ""
  ELSE IF \E p \in DOMAIN counts : IsStr(counts[p].value) THEN "TypeError"
  ELSE IF col \in a.float_cols THEN "TypeError"
  ELSE IF \E p \in DOMAIN counts : PyIndex(names, counts[p].value.num - 1) = "IndexError"
    THEN "IndexError"
  ELSE ""

N_get_time_analysis(a) ==
  LET hourly_dist == N_sorted_counts(Column(a.df, "crash_hour"))
      daily_dist == N_sorted_counts(Column(a.df, "crash_day_of_week"))
      monthly_dist == N_sorted_counts(Column(a.df, "crash_month"))
      day_raises == N_NameRaises(a, "crash_day_of_week", daily_dist, day_names)
      month_raises == N_NameRaises(a, "crash_month", monthly_dist, month_names)
  IN \* int(hour) of a string that is no numeral
     IF \E p \in DOMAIN hourly_dist :
          IsStr(hourly_dist[p].value) /\ hourly_dist[p].value # NumText(hourly_dist[p].value.num)
       THEN Raise("ValueError")
     ELSE IF day_raises # "" THEN Raise(day_raises)
     ELSE IF month_raises # "" THEN Raise(month_raises)
     ELSE Return(
       [hourly_distribution |->
          [p \in DOMAIN hourly_dist |->
             [hour |-> hourly_dist[p].value.num, accidents |-> hourly_dist[p].count]],
        daily_distribution |->
          [p \in DOMAIN daily_dist |->
             [day |-> Label(PyIndex(day_names, daily_dist[p].value.num - 1), 0),
              accidents |-> daily_dist[p].count]],
        monthly_distribution |->
          [p \in DOMAIN monthly_dist |->
             [month |-> Label(PyIndex(month_names, monthly_dist[p].value.num - 1), 0),
              accidents |-> monthly_dist[p].count]]])

(***************************************************************************)
(* netlify/functions/api.py: train_severity_model                          *)
(***************************************************************************)
N_feature_columns ==
  << "crash_hour", "crash_day_of_week", "crash_month", "num_units",
     "traffic_control_device", "weather_condition", "lighting_condition",
     "first_crash_type", "trafficway_type" >>

N_class_labels == << "No Injury", "Minor", "Moderate", "Severe" >>

\* pd.cut(injuries_total, bins=[-1, 0, 1, 5, inf], labels=...): the bins are
\* open on the left, a value outside every bin is missing
N_cut(c) ==
  IF ~IsNum(c) \/ c.num <= -1 THEN NaN
  ELSE IF c.num <= 0 THEN Str("No Injury")
  ELSE IF c.num <= 1 THEN Str("Minor")
  ELSE IF c.num <= 5 THEN Str("Moderate")
  ELSE Str("Severe")

\* the modal class of the training labels (ties: the smallest label)
ModalClass(y) == mode([i \in DOMAIN y |-> Str(y[i])])[1].value.str

\* the order of the categories of y
N_LabelOrder(labels) == SelectSeq(N_class_labels, LAMBDA l : l \in labels)

N_train_severity_model(a) ==
  LET available_features == SelectSeq(N_feature_columns, LAMBDA c : c \in a.processed_df.columns)
      y_all == [i \in DOMAIN a.df.rows |-> N_cut(a.df.rows[i]["injuries_total"])]
      valid == SortedInts({i \in DOMAIN y_all : ~IsNaN(y_all[i])})
      X == Project([p \in DOMAIN valid |-> a.processed_df.rows[valid[p]]], available_features)
      y == [p \in DOMAIN valid |-> y_all[valid[p]].str]
      n_test == TestSize(Len(y))
      X_train == SubSeq(X, 1, Len(y) - n_test)
      y_train == SubSeq(y, 1, Len(y) - n_test)
      y_test == SubSeq(y, Len(y) - n_test + 1, Len(y))
      rf_pred == [i \in DOMAIN y_test |-> ModalClass(y_train)]
      dt_pred == [i \in DOMAIN y_test |-> ModalClass(y_train)]
      Accuracy(pred) ==
        [sum |-> Cardinality({i \in DOMAIN y_test : pred[i] = y_test[i]}),
         count |-> Len(y_test)]
      Confusion(pred) ==
        LET labels == N_LabelOrder(Range(y_test) \cup Range(pred))
        IN [r \in DOMAIN labels |-> [c \in DOMAIN labels |->
              Cardinality({i \in DOMAIN y_test :
                             y_test[i] = labels[r] /\ pred[i] = labels[c]})]]
  IN IF ColumnGtRaises(Column(a.df, "injuries_total")) THEN Raise("TypeError")
     ELSE IF Len(y) = 0 \/ Len(y) - n_test = 0 THEN Raise("ValueError")
     ELSE IF SklearnRejects(X_train) THEN Raise("ValueError")
     ELSE Return(
       [random_forest |-> [accuracy |-> Accuracy(rf_pred), confusion_matrix |-> Confusion(rf_pred)],
        decision_tree |-> [accuracy |-> Accuracy(dt_pred), confusion_matrix |-> Confusion(dt_pred)],
        feature_cols |-> available_features,
        class_labels |-> N_class_labels,
        better_model |->
          IF Accuracy(rf_pred).sum > Accuracy(dt_pred).sum THEN "Random Forest" ELSE "Decision Tree"])

(***************************************************************************)
(* netlify/functions/api.py: perform_clustering                            *)
(***************************************************************************)
N_random_state == 42

N_cluster_features ==
  << "crash_hour", "crash_day_of_week", "crash_month", "num_units", "injuries_total" >>

N_perform_clustering(a, n_clusters, random_state) ==
  LET available_features == SelectSeq(N_cluster_features, LAMBDA c : c \in a.df.columns)
      X == DropNa(Project(a.df.rows, available_features))
      clusters == KMeansLabels(X, n_clusters, random_state)
  IN IF SklearnRejects(X) THEN Raise("ValueError")
     ELSE IF n_clusters < 1 \/ Len(X) < n_clusters THEN Raise("ValueError")
     \* Series.mean() of an object column of strings
     ELSE IF \E k \in DOMAIN X : IsStr(X[k]["crash_hour"]) \/ IsStr(X[k]["injuries_total"])
       THEN Raise("TypeError")
     ELSE Return(
       [clusters |->
          [i \in 0..(n_clusters - 1) |->
             LET idx == SortedInts({k \in DOMAIN X : clusters[k] = i})
             IN [cluster |-> i,
                 size |-> Len(idx),
                 avg_hour |-> mean([p \in DOMAIN idx |-> X[idx[p]]["crash_hour"]]),
                 avg_injuries |-> mean([p \in DOMAIN idx |-> X[idx[p]]["injuries_total"]]),
                 characteristics |-> Label("Cluster", i)]],
        n_clusters |-> n_clusters,
        total_samples |-> Len(X)])


(***************************************************************************)
(* Requests and responses.                                                 *)
(***************************************************************************)
\* a request: the operation and its one parameter (0 when it has none)
Request(op, arg) == [op |-> op, arg |-> arg]

\* the cluster counts requested (?clusters=)
ClusterCounts == {0, 1, 2}

\* the minimum supports requested, in percent (?min_support=)
MinSupports == {0, 1, 101}

\* a response: HTTP status, the kind of body, the body, and the analyzer
\* object the request was served from (0: none)
Response(req, status, kind, body, inst) ==
  [req |-> req, status |-> status, kind |-> kind, body |-> body, instance |-> inst]

NoResponse == Response(Request("none", 0), 0, "none", [none |-> TRUE], 0)

\* the body of the response to a call's outcome
Body(outcome) == IF outcome.raised THEN [error |-> outcome.exc] ELSE outcome.value

\* a method call on the module-level analyzer: on None the attribute
\* lookup raises AttributeError
OnAnalyzer(a, outcome) == IF a = None THEN Raise("AttributeError") ELSE outcome

\* health: data_loaded and total_records
HealthCheck(a) ==
  Return([status |-> "healthy", data_loaded |-> TRUE, total_records |-> Len_df(a.df)])

(***************************************************************************)
(* backend/app.py: the Flask application.                                  *)
(***************************************************************************)
\* a view function returns jsonify(result); an exception that leaves the
\* view is not caught by the application code: Flask answers with its own
\* 500 page (an HTML document; with debug=True the interactive traceback)
FlaskResponse(req, outcome, a) ==
  IF outcome.raised
    THEN Response(req, 500, "html", Body(outcome), IF a = None THEN 0 ELSE a.instance)
    ELSE Response(req, 200, "json", Body(outcome), a.instance)

\* the 'cluster' column assigned to the analyzer's own processed table
B_after_clustering_in_place(a) ==
  [a EXCEPT !.processed_df =
     DataFrame(a.processed_df.columns \cup {"cluster"},
               [i \in DOMAIN a.processed_df.rows |->
                  a.processed_df.rows[i] @@ [cluster |-> Num(0)]])]

\* cluster_df['cluster'] = clusters assigns the column to cluster_df, the
\* frame made by the column selection and dropna(): the analyzer is left as
\* it was
B_after_clustering(a) == a

\* module level: try: analyzer = TrafficAccidentAnalyzer()
\*               except Exception: analyzer = None
B_Import ==
  /\ deployment = "standalone"
  /\ phase = "import"
  /\ LET made == B_TrafficAccidentAnalyzer(file)
     IN IF made.raised
          THEN analyzer' = None /\ loads' = loads
          ELSE analyzer' = made.value @@ [instance |-> loads + 1] /\ loads' = loads + 1
  /\ phase' = "initialized"
  /\ UNCHANGED << deployment, file, pc, event, instance, served, response, memo >>

\* app.run(...), or the WSGI server that imported the module: requests are
\* accepted from here on, whether or not the analyzer was built
B_AppRun ==
  /\ deployment = "standalone"
  /\ phase = "initialized"
  /\ phase' = "serving"
  /\ UNCHANGED << deployment, file, analyzer, loads, pc, event, instance, served,
                  response, memo >>

\* one request through a route of the standalone server
B_Serve(req, outcome, after) ==
  /\ deployment = "standalone"
  /\ phase = "serving"
  /\ served < MaxRequests
  /\ served' = served + 1
  /\ response' = FlaskResponse(req, outcome, analyzer)
  /\ memo' \in {memo, response}
  /\ analyzer' = after
  /\ UNCHANGED << deployment, file, phase, loads, pc, event, instance >>

B_route_stats ==
  B_Serve(Request("stats", 0), OnAnalyzer(analyzer, B_get_basic_stats(analyzer)), analyzer)

B_route_time_analysis ==
  B_Serve(Request("time-analysis", 0),
          OnAnalyzer(analyzer, B_get_time_analysis(analyzer)), analyzer)

B_route_severity_analysis ==
  B_Serve(Request("severity-analysis", 0),
          OnAnalyzer(analyzer, B_get_severity_analysis(analyzer)), analyzer)

B_route_location_analysis ==
  B_Serve(Request("location-analysis", 0),
          OnAnalyzer(analyzer, B_get_location_analysis(analyzer)), analyzer)

B_route_clustering ==
  \E n_clusters \in ClusterCounts :
    B_Serve(Request("clustering", n_clusters),
            OnAnalyzer(analyzer, B_perform_clustering(analyzer, n_clusters, B_random_state)),
            IF analyzer = None THEN analyzer ELSE B_after_clustering(analyzer))

\* whether Graphviz can render the tree is a condition of the request's
\* environment: it is recorded with the request
B_route_ml_model ==
  \E render_ok \in [Renderings -> BOOLEAN] :
    B_Serve(Request("ml-model", RenderCode(render_ok)),
            OnAnalyzer(analyzer, B_train_severity_model(analyzer, render_ok)), analyzer)

B_route_association_rules ==
  \E min_support \in MinSupports :
    B_Serve(Request("association-rules", min_support),
            OnAnalyzer(analyzer, B_generate_association_rules(analyzer, min_support)), analyzer)

B_route_health ==
  B_Serve(Request("health", 0), OnAnalyzer(analyzer, HealthCheck(analyzer)), analyzer)

NextStandalone ==
  \/ B_Import
  \/ B_AppRun
  \/ B_route_stats
  \/ B_route_time_analysis
  \/ B_route_severity_analysis
  \/ B_route_location_analysis
  \/ B_route_clustering
  \/ B_route_ml_model
  \/ B_route_association_rules
  \/ B_route_health


(***************************************************************************)
(* netlify/functions/api.py: get_analyzer and handler.                     *)
(***************************************************************************)
Threads == 1..MaxThreads

\* the paths the handler routes, and one it does not
N_routed == {"stats", "time-analysis", "ml-model", "clustering", "health"}

N_Events ==
  {Request(op, 0) : op \in {"stats", "time-analysis", "ml-model", "health",
                            "association-rules", "OPTIONS"}}
    \cup {Request("clustering", n) : n \in ClusterCounts}

\* X = self.df[available_features].copy(): the clusters are computed on a
\* copy, the analyzer is left as it was
N_after_clustering(a) == a

\* the call the handler makes for a routed path
N_Call(a, req) ==
  CASE req.op = "stats" -> N_get_basic_stats(a)
    [] req.op = "time-analysis" -> N_get_time_analysis(a)
    [] req.op = "ml-model" -> N_train_severity_model(a)
    [] req.op = "clustering" -> N_perform_clustering(a, req.arg, N_random_state)
    [] req.op = "health" -> HealthCheck(a)

\* the handler's except clause: {'statusCode': 500, 'body': {'error': str(e)}}
N_ErrorResponse(req, outcome, inst) == Response(req, 500, "json", Body(outcome), inst)

\* handler, up to the call of get_analyzer(); a preflight request is
\* answered at once
N_Receive(t) ==
  /\ deployment = "serverless"
  /\ pc[t] = "idle"
  /\ served < MaxRequests
  /\ served' = served + 1
  /\ \E e \in N_Events :
       IF e.op = "OPTIONS"
         THEN /\ response' = Response(e, 200, "empty", [none |-> TRUE], 0)
              /\ memo' \in {memo, response}
              /\ UNCHANGED << pc, event >>
         ELSE /\ pc' = [pc EXCEPT ![t] = "get_analyzer"]
              /\ event' = [event EXCEPT ![t] = e]
              /\ UNCHANGED << response, memo >>
  /\ UNCHANGED << deployment, file, phase, analyzer, loads, instance >>

\* get_analyzer: if analyzer is None
N_GetAnalyzer(t) ==
  /\ deployment = "serverless"
  /\ pc[t] = "get_analyzer"
  /\ IF analyzer = None
       THEN /\ pc' = [pc EXCEPT ![t] = "construct"]
            /\ UNCHANGED instance
       ELSE /\ pc' = [pc EXCEPT ![t] = "dispatch"]
            /\ instance' = [instance EXCEPT ![t] = analyzer]
  /\ UNCHANGED << deployment, file, phase, analyzer, loads, event, served, response, memo >>

\* get_analyzer: analyzer = TrafficAccidentAnalyzer(); return analyzer
N_Construct(t) ==
  /\ deployment = "serverless"
  /\ pc[t] = "construct"
  /\ LET made == N_TrafficAccidentAnalyzer(file)
     IN IF made.raised
          THEN /\ response' = N_ErrorResponse(event[t], made, 0)
               /\ memo' \in {memo, response}
               /\ pc' = [pc EXCEPT ![t] = "idle"]
               /\ UNCHANGED << analyzer, loads, instance >>
          ELSE /\ analyzer' = made.value @@ [instance |-> loads + 1]
               /\ loads' = loads + 1
               /\ instance' = [instance EXCEPT ![t] = analyzer']
               /\ pc' = [pc EXCEPT ![t] = "dispatch"]
               /\ UNCHANGED << response, memo >>
  /\ UNCHANGED << deployment, file, phase, event, served >>

\* the handler's return for a routed path: the result as JSON, or the
\* except clause's error
N_Answer(req, outcome, inst) ==
  IF outcome.raised
    THEN N_ErrorResponse(req, outcome, inst)
    ELSE Response(req, 200, "json", Body(outcome), inst)

\* handler, from the path dispatch to the return
N_Route(req, a) ==
  IF req.op \notin N_routed
    THEN Response(req, 404, "json", [error |-> "Endpoint not found"], a.instance)
    ELSE N_Answer(req, N_Call(a, req), a.instance)

N_Dispatch(t) ==
  /\ deployment = "serverless"
  /\ pc[t] = "dispatch"
  /\ response' = N_Route(event[t], instance[t])
  /\ analyzer' = IF event[t].op = "clustering" /\ analyzer = instance[t]
                   THEN N_after_clustering(analyzer) ELSE analyzer
  /\ memo' \in {memo, response}
  /\ pc' = [pc EXCEPT ![t] = "idle"]
  /\ instance' = [instance EXCEPT ![t] = None]
  /\ UNCHANGED << deployment, file, phase, loads, event, served >>

NextServerless ==
  \E t \in Threads :
    \/ N_Receive(t)
    \/ N_GetAnalyzer(t)
    \/ N_Construct(t)
    \/ N_Dispatch(t)

(***************************************************************************)
(* The dataset files of the model.                                         *)
(***************************************************************************)
Present == {"./traffic_accidents.csv"}

\* a cell that holds text where a number is expected
Junk == Str("abc")

\* the file is at none of the candidate paths
NoFile == DatasetFile({}, FALSE, << >>)

\* the file is there and pd.read_csv cannot parse it
Unparseable == DatasetFile(Present, FALSE, << >>)

\* the parseable files whose records come from one set of rows
Tables(rowset) == {DatasetFile(Present, TRUE, rows) : rows \in SeqsUpTo(rowset, MaxRows)}

\* two records that differ in the weather and in the number of injuries
RowsCore ==
  {DefaultRow,
   [DefaultRow EXCEPT !["weather_condition"] = Str("RAIN"), !["injuries_total"] = Num(2)]}

FilesCore == {NoFile, Unparseable} \cup Tables(RowsCore)

\* the files of one record
Singles(rowset) == {DatasetFile(Present, TRUE, << r >>) : r \in rowset}

\* a record by its fatal, incapacitating and non-incapacitating counters
SeverityRow(f, i, n) ==
  [DefaultRow EXCEPT !["injuries_fatal"] = Num(f),
                     !["injuries_incapacitating"] = Num(i),
                     !["injuries_non_incapacitating"] = Num(n),
                     !["injuries_total"] = Num(f + i + n)]

RowsSeverity == {SeverityRow(f, i, n) : f \in {0, 1}, i \in {0, 1}, n \in {0, 1}}

\* a well-formed record, and records with text in a numeric field
RowsUncoercible ==
  {DefaultRow,
   [DefaultRow EXCEPT !["injuries_fatal"] = Junk],
   [DefaultRow EXCEPT !["crash_hour"] = Junk]}

FilesLoad == {NoFile, Unparseable} \cup Singles(RowsSeverity) \cup Tables(RowsUncoercible)

\* records with two fatalities, with a negative and with an empty total
RowsStats ==
  {[DefaultRow EXCEPT !["injuries_fatal"] = Num(2), !["injuries_total"] = Num(2)],
   [DefaultRow EXCEPT !["injuries_total"] = Num(-1)],
   [DefaultRow EXCEPT !["injuries_total"] = NaN]}

FilesStats == {NoFile, Unparseable} \cup Tables(RowsStats)

\* a record by its weekday index
DayRow(d) == [DefaultRow EXCEPT !["crash_day_of_week"] = Num(d)]

\* the weekday indexes of the records: the seven days and one on each side
DayIndexes == 0..8

\* one record of every weekday index, and tables of a Sunday and a Monday
FilesTime ==
  {NoFile, Unparseable} \cup Singles({DayRow(d) : d \in DayIndexes})
    \cup Tables({DayRow(2), DayRow(1)})

\* a fatal night-time record, a record with a minor injury in the rain
FatalRow ==
  [DefaultRow EXCEPT !["injuries_fatal"] = Num(1), !["injuries_total"] = Num(1),
                     !["crash_hour"] = Num(2)]

MinorRow ==
  [DefaultRow EXCEPT !["injuries_non_incapacitating"] = Num(1),
                     !["injuries_total"] = Num(1),
                     !["weather_condition"] = Str("RAIN")]

\* n copies of a record
Copies(row, n) == [i \in 1..n |-> row]

\* fifteen records: two fatal, three with a minor injury, ten without injury
SeverityTable == Copies(FatalRow, 2) \o Copies(MinorRow, 3) \o Copies(DefaultRow, 10)

FilesModel ==
  {NoFile, Unparseable, DatasetFile(Present, TRUE, SeverityTable)}
    \cup Tables({DefaultRow})

\* a record of a rainy night with two injuries
NightRainRow ==
  [DefaultRow EXCEPT !["weather_condition"] = Str("RAIN"),
                     !["lighting_condition"] = Str("DARKNESS"),
                     !["injuries_total"] = Num(2)]

\* eleven records: ten with several vehicles, two of them in the rain, and
\* one with a single vehicle.  Rain is followed by several vehicles with
\* lift 11/10.
LiftTable ==
  Copies(DefaultRow, 8)
    \o Copies([DefaultRow EXCEPT !["weather_condition"] = Str("RAIN")], 2)
    \o << [DefaultRow EXCEPT !["num_units"] = Num(1)] >>

\* three records: a clear day, a rainy day with two injuries, a rainy night
\* with two injuries and a fatality.  Darkness is followed by a fatality
\* with lift 3, rain by high injury with lift 3/2.
GradedTable ==
  << DefaultRow,
     [DefaultRow EXCEPT !["weather_condition"] = Str("RAIN"), !["injuries_total"] = Num(2)],
     [NightRainRow EXCEPT !["injuries_fatal"] = Num(1)] >>

\* a record of one vehicle on a dry road with nothing else filled in
SparseRow ==
  [DefaultRow EXCEPT !["weather_condition"] = NaN, !["lighting_condition"] = NaN,
                     !["first_crash_type"] = NaN, !["traffic_control_device"] = NaN,
                     !["num_units"] = Num(1)]

FilesRules ==
  {NoFile, Unparseable, DatasetFile(Present, TRUE, LiftTable),
   DatasetFile(Present, TRUE, GradedTable), DatasetFile(Present, TRUE, << SparseRow >>)}
    \cup Tables({DefaultRow, NightRainRow})

\* a record by its hour
HourRow(h) == [DefaultRow EXCEPT !["crash_hour"] = Num(h)]

\* one record of every hour of the day
FilesHours == {NoFile, Unparseable} \cup Singles({HourRow(h) : h \in 0..23})

(***************************************************************************)
(* Specifications.                                                         *)
(***************************************************************************)
InitWith(files) ==
  /\ deployment \in {"standalone", "serverless"}
  /\ file \in files
  /\ phase = IF deployment = "standalone" THEN "import" ELSE "serving"
  /\ analyzer = None
  /\ loads = 0
  /\ pc = [t \in Threads |-> "idle"]
  /\ event = [t \in Threads |-> Request("none", 0)]
  /\ instance = [t \in Threads |-> None]
  /\ served = 0
  /\ response = NoResponse
  /\ memo = NoResponse

Init == InitWith(FilesCore)

Next == NextStandalone \/ NextServerless

Spec == Init /\ [][Next]_vars


\* the loader run on the records of FilesLoad
InitLoad == InitWith(FilesLoad)

SpecLoad == InitLoad /\ [][Next]_vars

\* the statistics run on the records of FilesStats
InitStats == InitWith(FilesStats)

SpecStats == InitStats /\ [][Next]_vars

\* the time analysis run on the records of FilesTime
InitTime == InitWith(FilesTime)

SpecTime == InitTime /\ [][Next]_vars

\* the severity model trained on the records of FilesModel
InitModel == InitWith(FilesModel)

SpecModel == InitModel /\ [][Next]_vars

\* the rule mining run on the records of FilesRules
InitRules == InitWith(FilesRules)

SpecRules == InitRules /\ [][Next]_vars

\* the clustering run on the records of FilesHours
InitHours == InitWith(FilesHours)

SpecHours == InitHours /\ [][Next]_vars

(***************************************************************************)
(* Properties.                                                             *)
(***************************************************************************)
\* C1: when requests reach the serverless handler concurrently before the
\* analyzer exists, the dataset is loaded at most once and every request is
\* served from that one analyzer.
C1_AtMostOneLoad ==
  deployment = "serverless" =>
    /\ loads <= 1
    /\ \A t \in Threads : instance[t] # None => instance[t].instance = 1

\* C2: once the analyzer is loaded, no request changes its table, its
\* processed table or its label encoders.
C2_SharedStateReadOnly ==
  [][analyzer # None =>
       /\ analyzer' # None
       /\ analyzer'.df = analyzer.df
       /\ analyzer'.processed_df = analyzer.processed_df
       /\ analyzer'.label_encoders = analyzer.label_encoders]_vars

\* a clustering request has been answered from a loaded analyzer, after
\* another request
C2_ClusteringServed ==
  /\ deployment = "standalone"
  /\ analyzer # None
  /\ served = 2
  /\ response.req.op = "clustering"
  /\ response.status = 200

C4_SeverityPrecedence ==
  (deployment = "standalone" /\ analyzer # None) =>
    \A i \in DOMAIN analyzer.processed_df.rows :
      LET r == analyzer.processed_df.rows[i]
          fatal == r["injuries_fatal"]
          serious == r["injuries_incapacitating"]
          minor == r["injuries_non_incapacitating"]
      IN (IsNum(fatal) /\ IsNum(serious) /\ IsNum(minor)) =>
           /\ r["severity"].str \in {"Fatal", "Serious Injury", "Minor Injury", "No Injury"}
           /\ r["severity"].str = "Fatal" <=> fatal.num > 0
           /\ r["severity"].str = "Serious Injury" <=> (fatal.num = 0 /\ serious.num > 0)
           /\ r["severity"].str = "Minor Injury" <=>
                (fatal.num = 0 /\ serious.num = 0 /\ minor.num > 0)

\* a loaded record with fatal > 0 and incapacitating > 0, labelled Fatal
C4_FatalAndIncapacitating ==
  /\ deployment = "standalone"
  /\ analyzer # None
  /\ \E i \in DOMAIN analyzer.processed_df.rows :
       LET r == analyzer.processed_df.rows[i]
       IN /\ IsNum(r["injuries_fatal"]) /\ r["injuries_fatal"].num > 0
          /\ IsNum(r["injuries_incapacitating"]) /\ r["injuries_incapacitating"].num > 0
          /\ r["severity"] = Str("Fatal")

\* some record holds text that is no number in a numeric field
HasUncoercible(rows) ==
  \E i \in DOMAIN rows : \E c \in Range(numeric_cols) : IsStr(rows[i][c])

\* C5: a file with an uncoercible value in a numeric field still loads:
\* load_and_process_data completes and keeps every record.
C5_LoadSurvivesUncoercible ==
  (/\ deployment = "standalone"
   /\ phase # "import"
   /\ file.at # {}
   /\ file.parses
   /\ HasUncoercible(file.rows)) =>
     (analyzer # None /\ Len(analyzer.processed_df.rows) = Len(file.rows))

\* C6: the standalone server never accepts requests without a loaded
\* table: a missing or unparseable dataset aborts startup.
C6_FatalInitialization ==
  (deployment = "standalone" /\ phase = "serving") => analyzer # None

\* C7: a request whose computation raises is answered with a structured
\* error (a JSON object with an 'error' member), in both deployments.
C7_StructuredErrors ==
  response.status = 500 => (response.kind = "json" /\ "error" \in DOMAIN response.body)

\* C8: basic-stats returns total_accidents = injury_accidents +
\* property_damage_only for any table.
C8_TotalIsInjuryPlusPdo ==
  (response.req.op = "stats" /\ response.status = 200) =>
    response.body.total_accidents =
      response.body.injury_accidents + response.body.property_damage_only

\* the records of the analyzer's table with at least one fatality
FatalRecords(a) == CountGt(Column(a.df, "injuries_fatal"), 0)

\* C9: fatal_accidents is the number of records with injuries_fatal > 0,
\* which in the standalone server is the number of records labelled Fatal.
C9_FatalAccidentsCountsRecords ==
  (response.req.op = "stats" /\ response.status = 200 /\ analyzer # None) =>
    /\ response.body.fatal_accidents = FatalRecords(analyzer)
    /\ deployment = "standalone" =>
         response.body.fatal_accidents =
           CountIn(Column(analyzer.processed_df, "severity"), {Str("Fatal")})

\* C10: for any loaded table get_time_analysis succeeds, and its hourly
\* buckets add up to the number of records whose hour is not missing.
C10_HourlySum ==
  (/\ deployment = "standalone"
   /\ analyzer # None
   /\ response.req.op = "time-analysis") =>
     /\ response.status = 200
     /\ SumSeq([p \in DOMAIN response.body.hourly_distribution |->
                  response.body.hourly_distribution[p].accidents])
          = Cardinality({i \in DOMAIN analyzer.processed_df.rows :
                           IsNum(analyzer.processed_df.rows[i]["crash_hour"])})


\* the distinct numbers of a column, ascending
SortedValues(cells) == SortedInts({cells[i].num : i \in DOMAIN cells})

\* the weekday indexes of the table a time-analysis answer was computed on
TableDays ==
  SortedValues(Column(IF deployment = "standalone" THEN analyzer.processed_df
                                                   ELSE analyzer.df,
                      "crash_day_of_week"))

\* C11: in the daily distribution of both variants, weekday index 1 is
\* named Sunday and every index d in 1..7 carries the d-th name of Sunday,
\* Monday, Tuesday, Wednesday, Thursday, Friday, Saturday.
C11_WeekdayNames ==
  (response.req.op = "time-analysis" /\ response.status = 200 /\ analyzer # None) =>
    /\ Len(response.body.daily_distribution) = Len(TableDays)
    /\ \A p \in DOMAIN TableDays :
         TableDays[p] \in 1..7 =>
           response.body.daily_distribution[p].day.name =
             CASE TableDays[p] = 1 -> "Sunday"
               [] TableDays[p] = 2 -> "Monday"
               [] TableDays[p] = 3 -> "Tuesday"
               [] TableDays[p] = 4 -> "Wednesday"
               [] TableDays[p] = 5 -> "Thursday"
               [] TableDays[p] = 6 -> "Friday"
               [] TableDays[p] = 7 -> "Saturday"

\* the serverless variant has answered for a table of a Sunday and a Monday
C11_SundayAndMondayNamed ==
  /\ deployment = "serverless"
  /\ response.req.op = "time-analysis"
  /\ response.status = 200
  /\ Len(response.body.daily_distribution) = 2
  /\ response.body.daily_distribution[1].day.name = "Sunday"
  /\ response.body.daily_distribution[2].day.name = "Monday"


\* the sizes of the summaries 0..n-1, in order
SizesOf(summaries, n) == [k \in 1..n |-> summaries[k - 1].size]

\* the rows of a table that miss none of the named features
CompleteRows(rows, features) ==
  {k \in DOMAIN rows : \A c \in Range(features) : ~PdIsNa(rows[k][c])}

C13_CountBelowTwoRejected ==
  (response.req.op = "clustering" /\ response.req.arg < 2) => response.status # 200


\* the records of a file whose four numeric clustering features are all
\* numbers after coercion
CompleteRecords(rows) ==
  {k \in DOMAIN rows :
     \A c \in {"crash_hour", "crash_day_of_week", "crash_month", "injuries_total"} :
       ~PdIsNa(to_numeric(rows[k][c]))}

\* C14: a record that misses a clustering feature is dropped before
\* clustering: it is counted in no cluster and not in total_accidents, and
\* the clustering of the remaining records succeeds (asked for no more
\* clusters than there are different remaining records).
C14_IncompleteRecordsDropped ==
  (/\ deployment = "standalone"
   /\ analyzer # None
   /\ response.req.op = "clustering"
   /\ CompleteRecords(file.rows) # DOMAIN file.rows
   /\ response.req.arg \in
        1..Cardinality({file.rows[k] : k \in CompleteRecords(file.rows)})) =>
    /\ response.status = 200
    /\ response.body.total_accidents = Cardinality(CompleteRecords(file.rows))
    /\ SumSeq(SizesOf(response.body.cluster_analysis, response.req.arg))
         = Cardinality(CompleteRecords(file.rows))


\* C15: the features train_severity_model selects never hold a column
\* derived from the injury counters or from most_severe_injury: they are the
\* '<field>_encoded' columns of the nominal fields that are no outcome, and
\* crash_hour, crash_day_of_week, crash_month and num_units.
C15_FeaturesExcludeOutcomes ==
  (deployment = "standalone" /\ response.req.op = "ml-model" /\ response.status = 200) =>
    /\ Range(response.body.feature_cols) =
         { "traffic_control_device_encoded", "weather_condition_encoded",
           "lighting_condition_encoded", "first_crash_type_encoded",
           "trafficway_type_encoded", "alignment_encoded",
           "roadway_surface_cond_encoded", "road_defect_encoded",
           "prim_contributory_cause_encoded",
           "crash_hour", "crash_day_of_week", "crash_month", "num_units" }
    /\ Len(response.body.feature_cols) = 13
    /\ "most_severe_injury_encoded" \in analyzer.processed_df.columns

\* the standalone server has reported a trained model
C15_ModelReported ==
  /\ deployment = "standalone"
  /\ response.req.op = "ml-model"
  /\ response.status = 200
  /\ response.body.test_size >= 1


\* C16: in every severity-model report each model's confusion matrix has
\* len(class_labels) rows and len(class_labels) columns, whatever classes
\* occur in the test labels and in the two models' predictions.
C16_ConfusionMatchesLabels ==
  (deployment = "standalone" /\ response.req.op = "ml-model" /\ response.status = 200) =>
    \A m \in {response.body.random_forest.confusion_matrix,
              response.body.decision_tree.confusion_matrix} :
      /\ Len(m) = Len(response.body.class_labels)
      /\ \A r \in DOMAIN m : Len(m[r]) = Len(response.body.class_labels)


\* a report without its renderings
WithoutStructures(body) == [k \in DOMAIN body \ {"model_structures"} |-> body[k]]

\* C17: a failed rendering of the decision tree (rule text, full text or
\* diagram) does not fail the request: the report is returned with every
\* other member as it is when the renderings succeed, and the error marker is
\* carried by the sub-field whose rendering failed and by no other.
C17_RenderingFailureIsLocal ==
  (/\ deployment = "standalone"
   /\ response.req.op = "ml-model"
   /\ memo.req.op = "ml-model") =>
    /\ response.status = memo.status
    /\ response.status = 200 =>
         /\ WithoutStructures(response.body) = WithoutStructures(memo.body)
         /\ (response.body.model_structures.decision_tree_rules = "<tree text>")
              <=> (response.req.arg % 2 = 1)
         /\ (response.body.model_structures.decision_tree_full = "<tree text>")
              <=> ((response.req.arg \div 2) % 2 = 1)
         /\ ("error" \notin DOMAIN response.body.model_structures.decision_tree_graphviz)
              <=> ((response.req.arg \div 4) % 2 = 1)

\* the diagram failed after a request whose renderings all succeeded: the
\* report is there, with the rule text and the full text
C17_DiagramFailedOnly ==
  /\ deployment = "standalone"
  /\ memo.req = Request("ml-model", 7)
  /\ memo.status = 200
  /\ response.req = Request("ml-model", 3)
  /\ response.status = 200
  /\ "error" \in DOMAIN response.body.model_structures.decision_tree_graphviz
  /\ response.body.model_structures.decision_tree_rules = "<tree text>"


\* the rules association_rules derives from the analyzer's table at a
\* minimum support, before the relevance test
MinedFrom(cols, T, min_support_pct) ==
  {B_rule_record(cols, r) : r \in B_mined_rules(T, B_frequent_itemsets(T, min_support_pct))}

MinedOf(a, min_support_pct) ==
  MinedFrom(B_binary_columns(a), B_transactions(B_binary_columns(a), a.df.rows),
            min_support_pct)

\* the rules of an answered association-rules request
ReturnedRules == {response.body.rules[p] : p \in DOMAIN response.body.rules}

RulesAnswered == response.req.op = "association-rules" /\ response.status = 200

\* C18: no returned rule joins, between its antecedent and its consequent,
\* the two items of a pair of the exclusion list (clear weather / daylight,
\* rain / wet surface, snow / snow surface, darkness / lighted), in either
\* direction; so a table of clear daylight records yields no such rule.
C18_NoTautologicalPair ==
  RulesAnswered =>
    \A r \in ReturnedRules : \A ant \in r.antecedents : \A c \in r.consequents :
      {ant, c} \notin
        { {Item("weather_condition", "CLEAR"), Item("lighting_condition", "DAYLIGHT")},
          {Item("weather_condition", "RAIN"), Item("roadway_surface_cond", "WET")},
          {Item("weather_condition", "SNOW"), Item("roadway_surface_cond", "SNOW OR SLUSH")},
          {Item("lighting_condition", "DARKNESS"), Item("lighting_condition", "LIGHTED")} }

\* clear weather => daylight and daylight => clear weather were mined with
\* lift above 1.1, and the answer holds other rules but neither of them
C18_ClearDaylightMinedNotReturned ==
  /\ RulesAnswered
  /\ analyzer # None
  /\ ReturnedRules # {}
  /\ \E r \in MinedOf(analyzer, response.req.arg) :
       /\ r.antecedents = {Item("weather_condition", "CLEAR")}
       /\ r.consequents = {Item("lighting_condition", "DAYLIGHT")}
       /\ 10 * r.lift.num > 11 * r.lift.den
       /\ r \notin ReturnedRules
  /\ \E q \in MinedOf(analyzer, response.req.arg) :
       /\ q.antecedents = {Item("lighting_condition", "DAYLIGHT")}
       /\ q.consequents = {Item("weather_condition", "CLEAR")}
       /\ 10 * q.lift.num > 11 * q.lift.den
       /\ q \notin ReturnedRules


C20_NoEnvironmentalConsequent ==
  RulesAnswered =>
    \A r \in ReturnedRules : \A c \in r.consequents :
      c.field \notin {"weather_condition", "lighting_condition", "roadway_surface_cond"}

\* high injury => rain and rear end, a consequent that mixes an
\* environmental item with an outcome item, was mined with lift above 1.1
\* and is not in the answer, which holds other rules
C20_MixedConsequentNotReturned ==
  /\ RulesAnswered
  /\ analyzer # None
  /\ ReturnedRules # {}
  /\ \E r \in MinedOf(analyzer, response.req.arg) :
       /\ r.antecedents = {Item("high_injury", "")}
       /\ r.consequents = {Item("weather_condition", "RAIN"),
                           Item("first_crash_type", "REAR END")}
       /\ 10 * r.lift.num > 11 * r.lift.den
       /\ r \notin ReturnedRules


\* the mined rules that pass the relevance test
Surviving(a, min_support_pct) ==
  {r \in MinedOf(a, min_support_pct) : B_keep_rule(r.antecedents, r.consequents, r.lift)}

\* the lift of r is at least the lift of q
LiftAtLeast(r, q) == r.lift.num * q.lift.den >= q.lift.num * r.lift.den

\* C21: the returned list is ordered by non-increasing lift, holds at most
\* 15 rules, and these are the surviving rules of highest lift: no surviving
\* rule left out has a lift greater than that of a returned rule (for a
\* minimum support above 0, which apriori accepts).
C21_TopFifteenByLift ==
  (RulesAnswered /\ analyzer # None /\ response.req.arg > 0) =>
    /\ Len(response.body.rules) <= 15
    /\ \A p \in DOMAIN response.body.rules : \A q \in DOMAIN response.body.rules :
         p < q => LiftAtLeast(response.body.rules[p], response.body.rules[q])
    /\ ReturnedRules \subseteq Surviving(analyzer, response.req.arg)
    /\ Cardinality(ReturnedRules) = Len(response.body.rules)
    /\ \A s \in Surviving(analyzer, response.req.arg) \ ReturnedRules :
         /\ Len(response.body.rules) = 15
         /\ \A r \in ReturnedRules : LiftAtLeast(r, s)

\* fifteen rules of lift 3 were returned and surviving rules of lift 3/2
\* were left out
C21_LowerLiftLeftOut ==
  /\ RulesAnswered
  /\ analyzer # None
  /\ Len(response.body.rules) = 15
  /\ \A r \in ReturnedRules : r.lift.num = 3 * r.lift.den
  /\ \E s \in Surviving(analyzer, response.req.arg) : 2 * s.lift.num = 3 * s.lift.den


\* the transactions of the analyzer's table
TransactionsOf(a) == B_transactions(B_binary_columns(a), a.df.rows)

\* C22: when mining finds no frequent itemset, or finds itemsets and derives
\* no rule at confidence 0.6, the request does not fail: it is answered with
\* an empty rule list and the explanatory marker.
C22_NothingMinedIsNoFailure ==
  (/\ deployment = "standalone"
   /\ response.req.op = "association-rules"
   /\ analyzer # None
   /\ response.req.arg > 0
   /\ MinedOf(analyzer, response.req.arg) = {}) =>
    /\ response.status = 200
    /\ response.body.rules = << >>
    /\ "error" \in DOMAIN response.body

\* itemsets were frequent, none of them gave a rule, and the answer is the
\* empty list with its marker
C22_ItemsetsWithoutRules ==
  /\ deployment = "standalone"
  /\ response.req.op = "association-rules"
  /\ response.status = 200
  /\ analyzer # None
  /\ response.req.arg > 0
  /\ B_frequent_itemsets(TransactionsOf(analyzer), response.req.arg) # {}
  /\ MinedOf(analyzer, response.req.arg) = {}
  /\ response.body.rules = << >>
  /\ "error" \in DOMAIN response.body


\* C23: an empty rule list always comes with the explanatory marker, on
\* every path that yields one: no itemsets, no rules, an exception during
\* mining, and rules mined but all removed by the relevance filter.
C23_EmptyListIsMarked ==
  (RulesAnswered /\ response.body.rules = << >>) => "error" \in DOMAIN response.body


\* hour h of the day on the 12-hour clock, and its suffix
ClockHour(h) == IF h % 12 = 0 THEN 12 ELSE h % 12
ClockSuffix(h) == IF h % 24 < 12 THEN "AM" ELSE "PM"

\* C24: for every modal hour h in 0..23 the hour_description of a cluster
\* names the interval from h to h+1 on the 12-hour clock, each end with the
\* suffix that hour has (11 ends at 12:00 PM, 23 at 12:00 AM), and marks 0
\* as Midnight and 12 as Noon.
C24_HourDescription ==
  (deployment = "standalone" /\ response.req.op = "clustering" /\ response.status = 200) =>
    \A i \in DOMAIN response.body.cluster_analysis :
      LET h == response.body.cluster_analysis[i].common_hour
          d == response.body.cluster_analysis[i].hour_description
      IN h \in 0..23 =>
           /\ d.start = ClockHour(h)
           /\ d.start_suffix = ClockSuffix(h)
           /\ d.end = ClockHour(h + 1)
           /\ d.end_suffix = ClockSuffix(h + 1)
           /\ d.note = (IF h = 0 THEN "Midnight" ELSE IF h = 12 THEN "Noon" ELSE "")


\* C25: a weekday name is reported only for day-of-week values in 1..7: a
\* record whose value lies outside (0, a negative number, 8 and above) is
\* never counted under the name of a real weekday and never makes
\* get_time_analysis fail.
C25_OutOfRangeDays ==
  (/\ response.req.op = "time-analysis"
   /\ analyzer # None
   /\ \E p \in DOMAIN TableDays : TableDays[p] \notin 1..7) =>
    /\ response.status = 200
    /\ \A p \in DOMAIN TableDays :
         TableDays[p] \notin 1..7 =>
           response.body.daily_distribution[p].day.name \notin
             {"Sunday", "Monday", "Tuesday", "Wednesday", "Thursday", "Friday", "Saturday"}


====
